---- MODULE Spec2Model ----
(***************************************************************************)
(* A model of the three programs of the ARGO float repository:            *)
(*   - the File Ingestor            (src/data loader/argo_load.py)         *)
(*   - the Summarization & Indexing Pipeline                               *)
(*                                  (src/data loader/sql_to_chromadb.py)   *)
(*   - the Query Service            (src/main.py)                          *)
(* Each program has its own specification (SpecIngestor, SpecPipeline,     *)
(* SpecService); the variables of the other two programs stay at their     *)
(* initial values.                                                         *)
(***************************************************************************)
EXTENDS Integers, Sequences, FiniteSets, TLC

\* ------------------------------------------------------------------ bounds

\* number of .nc files in the folder
NumFiles == 2
\* largest len(cycles) of a file
MaxCycles == 2
\* number of depth levels of a profile (second dimension of PRES/TEMP/PSAL)
ProfileLen == 2
\* largest number of rows of argo_profiles
MaxRows == 5
\* rows per page; the script sets 100 (sql_to_chromadb.py line 149), scaled down
BATCH_SIZE == 2
\* number of HTTP requests in flight at once
NumRequests == 2
\* largest number of entries of a plan's "queries" list
MaxPlanLen == 2

VARIABLES
    \* ---- File Ingestor
    ing_pc,       \* position of the script: "list" | "loop" | "commit" | "done"
    file,         \* index of the file the module-level loop is at
    i,            \* loop variable of process_nc_file (1-based)
    nCycles,      \* len(cycles) of the open file
    cycle,        \* local variable `cycle` of process_nc_file, or Unbound
    table,        \* committed rows of argo_profile_data, by (file, cycle index)
    rolledBack,   \* (file, cycle index) whose handler logged and rolled back
    fatal,        \* files whose processing ended in the outer handler
    fileLen,      \* file -> len(cycles) once the metadata was read, else -1
    pending       \* the row of the open transaction (its profiles and VALUES), or None

VARIABLES
    \* ---- Summarization & Indexing Pipeline
    pl_pc,          \* "idle" | "page" | "summarize" | "index" | "log" | "stopped"
    rows,           \* argo_profiles: the row ids in ORDER BY profile_date DESC order
    progressFile,   \* processing_progress.log: None (absent) or Some(page number)
    collection,     \* ids of the documents of the Chroma collection
    total_records,  \* SELECT COUNT(*) of this run
    total_pages,    \* math.ceil(total_records / BATCH_SIZE)
    start_page,     \* get_start_page() at the start of this run
    page,           \* loop variable of the page loop
    df,             \* the fetched page: row ids, in query order
    summaries_for_chroma,  \* one entry per summarized row of df
    failedPage,     \* the page this run's handler reported (0: none)
    failCause,      \* what raised in the failed page: "fetch" | "row" | "index" | "none"
    resumeFrom,     \* the page the previous run failed on (0: it did not fail)
    fetched,        \* the pages this run has fetched, in order
    pagesDone,      \* number of log_completed_page calls so far, over all runs
    completionMsg   \* this run printed "All batches have been processed successfully!"

plVars == <<pl_pc, rows, progressFile, collection, total_records, total_pages,
            start_page, page, df, summaries_for_chroma, failedPage, failCause,
            resumeFrom, fetched, pagesDone, completionMsg>>

VARIABLES
    \* ---- Query Service
    loopOwner,         \* the request whose handler holds the event loop (0: none)
    rq_pc,             \* request -> "none" | "arrived" | "db_call" | "plan_call"
                       \*            | "queries" | "done"
    rq_kind,           \* request -> "trajectories" | "analyze"
    planValid,         \* request -> the plan reply, null bytes stripped, was JSON
    plan,              \* request -> plan["queries"]
    q_idx,             \* request -> position of the loop over plan["queries"]
    data_for_frontend, \* request -> dict: n (for "sql_result_n") -> rows
    retrieved_data,    \* request -> dict: n (for "vector_result_n") -> documents
    response,          \* request -> the HTTP response
    dbCalls,           \* request -> number of relational queries it attempted
    vecCalls,          \* request -> number of vector-store queries it attempted
    llmCalls           \* request -> number of model.generate_content calls

svcVars == <<loopOwner, rq_pc, rq_kind, planValid, plan, q_idx, data_for_frontend,
             retrieved_data, response, dbCalls, vecCalls, llmCalls>>

ingVars == <<ing_pc, file, i, nCycles, cycle, table, rolledBack, fatal, fileLen, pending>>

vars == <<ingVars, plVars, svcVars>>

\* =========================================================================
\* File Ingestor
\* =========================================================================

\* Optional values are sequences of length 0 or 1: <<>> is Python's None (or an
\* unbound local), <<v>> is the value v.
None == <<>>
Some(v) == <<v>>
Unbound == <<>>

\* an element of a masked array: its mask bit and the data under it
MaskedElem == [mask |-> TRUE, data |-> 99999]
ValidElem == [mask |-> FALSE, data |-> 2]

\* one cycle's row of a 2-D profile variable: a masked array of ProfileLen levels
Profiles == [1..ProfileLen -> {MaskedElem, ValidElem}]

\* where one iteration of the cycle loop raises, if anywhere
FailPoints == {"none", "cycle", "time", "lat", "lon", "execute"}

RECURSIVE SumValid(_, _)
SumValid(p, k) ==
    IF k = 0 THEN 0
    ELSE (IF p[k].mask THEN 0 ELSE p[k].data) + SumValid(p, k - 1)

CountValid(p) == Cardinality({k \in DOMAIN p : ~p[k].mask})

\* np.nanmean of a masked array: the mean of its unmasked elements, nan for none
nanmean(p) ==
    IF CountValid(p) = 0 THEN "nan" ELSE SumValid(p, ProfileLen) \div CountValid(p)

\* the mean taken without looking at the mask first
ProfileAvgUnchecked(p) == Some(nanmean(p))

\* float(np.nanmean(profile)) if np.any(~profile.mask) else None
ProfileAvg(p) ==
    IF \E k \in DOMAIN p : ~p[k].mask THEN Some(nanmean(p)) ELSE None

IngInit ==
    /\ ing_pc = "list"
    /\ file = 1
    /\ i = 1
    /\ nCycles = 0
    /\ cycle = Unbound
    /\ table = {}
    /\ rolledBack = {}
    /\ fatal = {}
    /\ fileLen = [f \in 1..NumFiles |-> -1]
    /\ pending = None

\* process_nc_file, up to the cycle loop: open the file and read its metadata.
\* A failure here is caught by the outer handler and ends this file.
OpenFile ==
    /\ UNCHANGED <<plVars, svcVars>>
    /\ ing_pc = "list"
    /\ file <= NumFiles
    /\ \E ok \in BOOLEAN, n \in 0..MaxCycles :
         IF ok
         THEN /\ ing_pc' = "loop"
              /\ nCycles' = n
              /\ i' = 1
              /\ cycle' = Unbound
              /\ fileLen' = [fileLen EXCEPT ![file] = n]
              /\ UNCHANGED <<file, fatal>>
         ELSE /\ fatal' = fatal \cup {file}
              /\ file' = file + 1
              /\ UNCHANGED <<ing_pc, nCycles, i, cycle, fileLen>>
    /\ UNCHANGED <<table, rolledBack, pending>>

\* The handler of the cycle loop's try block (lines 83-86), entered with the
\* local `cycle` as c. Its print reads `cycle`; when the iteration failed before
\* `cycle` was ever assigned in this call, the print raises UnboundLocalError,
\* which leaves the loop and is caught by the outer handler of process_nc_file
\* (no rollback, no ds.close()). Otherwise it logs, rolls back and the loop goes on.
CycleHandler(c) ==
    IF c = Unbound
    THEN /\ fatal' = fatal \cup {file}
         /\ file' = file + 1
         /\ ing_pc' = "list"
         /\ pending' = None
         /\ i' = 1
         /\ cycle' = Unbound
         /\ UNCHANGED rolledBack
    ELSE /\ rolledBack' = rolledBack \cup {<<file, i>>}
         /\ pending' = None
         /\ cycle' = c
         /\ i' = i + 1
         /\ ing_pc' = "loop"
         /\ UNCHANGED <<file, fatal>>

\* One iteration of `for i in range(len(cycles))`, up to cur.execute: the
\* conversions, the three means and the INSERT, which leaves the row pending in
\* the open transaction.
ProcessCycle ==
    /\ UNCHANGED <<plVars, svcVars>>
    /\ ing_pc = "loop"
    /\ i <= nCycles
    /\ \E fail \in FailPoints :
         IF fail = "none"
         THEN \E pres_profile \in Profiles, temp_profile \in Profiles,
                 psal_profile \in Profiles :
                /\ pending' = Some([pres_profile |-> pres_profile,
                                    temp_profile |-> temp_profile,
                                    psal_profile |-> psal_profile,
                                    pres_avg |-> ProfileAvg(pres_profile),
                                    temp_avg |-> ProfileAvg(temp_profile),
                                    psal_avg |-> ProfileAvg(psal_profile)])
                /\ cycle' = Some(i)
                /\ ing_pc' = "commit"
                /\ UNCHANGED <<file, i, rolledBack, fatal>>
         ELSE CycleHandler(IF fail = "cycle" THEN cycle ELSE Some(i))
    /\ UNCHANGED <<nCycles, fileLen, table>>

\* conn.commit() of the pending row, or its failure and the handler
CommitCycle ==
    /\ UNCHANGED <<plVars, svcVars>>
    /\ ing_pc = "commit"
    /\ \E ok \in BOOLEAN :
         IF ok
         THEN /\ table' = table \cup {<<file, i>>}
              /\ pending' = None
              /\ i' = i + 1
              /\ ing_pc' = "loop"
              /\ UNCHANGED <<file, cycle, rolledBack, fatal>>
         ELSE /\ CycleHandler(cycle)
              /\ UNCHANGED table
    /\ UNCHANGED <<nCycles, fileLen>>

\* the cycle loop is exhausted: ds.close() and return to the file loop (the
\* locals of process_nc_file end with the call)
CloseFile ==
    /\ UNCHANGED <<plVars, svcVars>>
    /\ ing_pc = "loop"
    /\ i > nCycles
    /\ ing_pc' = "list"
    /\ file' = file + 1
    /\ i' = 1
    /\ cycle' = Unbound
    /\ UNCHANGED <<nCycles, table, rolledBack, fatal, fileLen, pending>>

\* the file loop is exhausted: cur.close(), conn.close()
IngFinish ==
    /\ UNCHANGED <<plVars, svcVars>>
    /\ ing_pc = "list"
    /\ file > NumFiles
    /\ ing_pc' = "done"
    /\ UNCHANGED <<file, i, nCycles, cycle, table, rolledBack, fatal, fileLen, pending>>

IngNext == OpenFile \/ ProcessCycle \/ CommitCycle \/ CloseFile \/ IngFinish

\* =========================================================================
\* Summarization & Indexing Pipeline
\* =========================================================================

Min(a, b) == IF a < b THEN a ELSE b

\* math.ceil(n / BATCH_SIZE)
CeilDiv(n, d) == (n + d - 1) \div d

\* the resume point read without the step to the next page
get_start_page_same_page ==
    IF progressFile = None THEN 1 ELSE progressFile[1]

\* get_start_page(): 1 when the progress file is absent, else its number plus one.
\* (The file is only ever written by log_completed_page, so it always parses.)
get_start_page ==
    IF progressFile = None THEN 1 ELSE progressFile[1] + 1

\* SELECT * ... ORDER BY profile_date DESC LIMIT batch_size OFFSET (page-1)*batch_size
FetchRows(page_number) ==
    LET offset == (page_number - 1) * BATCH_SIZE
    IN  SubSeq(rows, offset + 1, Min(offset + BATCH_SIZE, Len(rows)))

\* what happens to one row in the summarization loop
RowOutcomes == {"ok", "nofield", "model", "parse", "serialize"}

\* the entry appended to summaries_for_chroma for a row with this outcome
SummaryFor(id, outcome) ==
    [row |-> id,
     text |-> CASE outcome = "ok" -> "summary"
                [] outcome = "nofield" -> "Summary not available."
                [] OTHER -> "Documentation failed for record."]

\* s with x inserted so that it becomes element number k
InsertAt(s, k, x) == SubSeq(s, 1, k - 1) \o <<x>> \o SubSeq(s, k, Len(s))

PlInit ==
    /\ pl_pc = "idle"
    /\ rows = <<>>
    /\ progressFile = None
    /\ collection = {}
    /\ total_records = 0
    /\ total_pages = 0
    /\ start_page = 1
    /\ page = 1
    /\ df = <<>>
    /\ summaries_for_chroma = <<>>
    /\ failedPage = 0
    /\ failCause = "none"
    /\ resumeFrom = 0
    /\ fetched = <<>>
    /\ pagesDone = 0
    /\ completionMsg = FALSE

\* Between two runs another process inserts a row: it gets the next SERIAL id
\* and, by its profile_date, any place in the descending order. Rows are never
\* deleted.
InsertRow ==
    /\ UNCHANGED <<ingVars, svcVars>>
    /\ Len(rows) < MaxRows
    /\ pl_pc = "idle"
    /\ \E k \in 1..(Len(rows) + 1) : rows' = InsertAt(rows, k, Len(rows) + 1)
    /\ UNCHANGED <<pl_pc, progressFile, collection, total_records, total_pages,
                   start_page, page, df, summaries_for_chroma, failedPage, failCause,
                   resumeFrom, fetched, pagesDone, completionMsg>>

\* __main__ up to the page loop: count the rows, compute the pages, read the
\* progress file. On an empty table the script prints and ends.
StartRun ==
    /\ UNCHANGED <<ingVars, svcVars>>
    /\ pl_pc = "idle"
    /\ total_records' = Len(rows)
    /\ resumeFrom' = failedPage
    /\ failedPage' = 0
    /\ failCause' = "none"
    /\ fetched' = <<>>
    /\ completionMsg' = FALSE
    /\ IF Len(rows) = 0
       THEN UNCHANGED <<pl_pc, total_pages, start_page, page>>
       ELSE /\ total_pages' = CeilDiv(Len(rows), BATCH_SIZE)
            /\ start_page' = get_start_page
            /\ page' = get_start_page
            /\ pl_pc' = "page"
    /\ UNCHANGED <<rows, progressFile, collection, df, summaries_for_chroma, pagesDone>>

\* a handler that logs the error and goes on with the next page
PageFailedContinue(cause) ==
    /\ failedPage' = page
    /\ failCause' = cause
    /\ pl_pc' = "page"
    /\ page' = page + 1
    /\ df' = <<>>
    /\ summaries_for_chroma' = <<>>

\* The handler of the page loop (lines 190-193): log the error and break.
PageFailed(cause) ==
    /\ failedPage' = page
    /\ failCause' = cause
    /\ pl_pc' = "stopped"
    /\ df' = <<>>
    /\ summaries_for_chroma' = <<>>
    /\ UNCHANGED page

\* fetch_process_and_index_data, step 1: fetch the page, or fail and re-raise.
\* An empty page returns at once and counts as completed.
FetchPage ==
    /\ UNCHANGED <<ingVars, svcVars>>
    /\ pl_pc = "page"
    /\ page <= total_pages
    /\ fetched' = Append(fetched, page)
    /\ \E ok \in BOOLEAN :
         IF ~ok
         THEN PageFailed("fetch")
         ELSE /\ df' = FetchRows(page)
              /\ summaries_for_chroma' = <<>>
              /\ pl_pc' = IF Len(FetchRows(page)) = 0 THEN "log" ELSE "summarize"
              /\ UNCHANGED <<page, failedPage, failCause>>
    /\ UNCHANGED <<rows, progressFile, collection, total_records, total_pages,
                   start_page, resumeFrom, pagesDone, completionMsg>>

\* step 2, one iteration of `for index, row in df.iterrows()`: row.to_json and
\* the prompt are built outside the try block, so a failure there leaves the
\* function; a failure of the model call or of parsing its reply is caught and
\* a placeholder is appended.
SummarizeRow ==
    /\ UNCHANGED <<ingVars, svcVars>>
    /\ pl_pc = "summarize"
    /\ Len(summaries_for_chroma) < Len(df)
    /\ \E outcome \in RowOutcomes :
         IF outcome = "serialize"
         THEN PageFailed("row")
         ELSE /\ summaries_for_chroma' =
                    Append(summaries_for_chroma,
                           SummaryFor(df[Len(summaries_for_chroma) + 1], outcome))
              /\ UNCHANGED <<pl_pc, page, df, failedPage, failCause>>
    /\ UNCHANGED <<rows, progressFile, collection, total_records, total_pages,
                   start_page, resumeFrom, fetched, pagesDone, completionMsg>>

\* step 3: embed the summaries and collection.add them under the rows' ids; an
\* id the collection already holds keeps its place. A failure here (embedding,
\* vector store) leaves the function.
IndexPage ==
    /\ UNCHANGED <<ingVars, svcVars>>
    /\ pl_pc = "summarize"
    /\ Len(summaries_for_chroma) = Len(df)
    /\ \E ok \in BOOLEAN :
         IF ~ok
         THEN /\ PageFailed("index")
              /\ UNCHANGED collection
         ELSE /\ collection' = collection \cup {df[k] : k \in DOMAIN df}
              /\ pl_pc' = "log"
              /\ UNCHANGED <<page, df, summaries_for_chroma, failedPage, failCause>>
    /\ UNCHANGED <<rows, progressFile, total_records, total_pages,
                   start_page, resumeFrom, fetched, pagesDone, completionMsg>>

\* log_completed_page(page) and the next iteration of the page loop
LogCompletedPage ==
    /\ UNCHANGED <<ingVars, svcVars>>
    /\ pl_pc = "log"
    /\ progressFile' = Some(page)
    /\ pagesDone' = pagesDone + 1
    /\ page' = page + 1
    /\ pl_pc' = "page"
    /\ df' = <<>>
    /\ summaries_for_chroma' = <<>>
    /\ UNCHANGED <<rows, collection, total_records, total_pages, start_page,
                   failedPage, failCause, resumeFrom, fetched, completionMsg>>

\* after the loop (exhausted or left by break): the completion check of line 195;
\* the process ends and its locals with it
FinishRun ==
    /\ UNCHANGED <<ingVars, svcVars>>
    /\ \/ pl_pc = "page" /\ page > total_pages
       \/ pl_pc = "stopped"
    /\ completionMsg' = (get_start_page > total_pages)
    /\ pl_pc' = "idle"
    /\ total_pages' = 0
    /\ start_page' = 1
    /\ page' = 1
    /\ fetched' = <<>>
    /\ UNCHANGED <<rows, progressFile, collection, total_records, df,
                   summaries_for_chroma, failedPage, failCause, resumeFrom, pagesDone>>

PlNext ==
    \/ InsertRow
    \/ StartRun
    \/ FetchPage
    \/ SummarizeRow
    \/ IndexPage
    \/ LogCompletedPage
    \/ FinishRun

\* =========================================================================
\* Query Service
\* =========================================================================

Requests == 1..NumRequests

\* Text is a sequence of characters. Three kinds of character matter:
\*   "c"    an ordinary character
\*   "NUL"  the character U+0000
\*   "ESC"  the six characters \u0000, JSON's escape for U+0000
\* Longer fixed pieces of text (messages) are one element each.
Texts == {<<"c">>, <<"c", "NUL">>, <<"c", "ESC">>}

Tools == {"postgres", "vector"}

PlanEntries == [tool : Tools, query : Texts]

Plans == UNION {[1..n -> PlanEntries] : n \in 0..MaxPlanLen}

\* The text of a plan reply, by its shape: free text, a JSON object without a
\* "queries" key, or a JSON object {"queries": [{"tool": t, "query": "..."}]}
\* whose query string literals hold the given characters.
PlanReplies ==
    {[kind |-> "text", body |-> t, queries |-> <<>>] : t \in Texts}
    \cup {[kind |-> "noqueries", body |-> <<>>, queries |-> <<>>]}
    \cup {[kind |-> "object", body |-> <<>>, queries |-> qs] : qs \in Plans}

\* text.replace('\x00', '')
clean_null_bytes(text) == SelectSeq(text, LAMBDA ch : ch # "NUL")

\* clean_null_bytes over the whole text of a reply
CleanReply(reply) ==
    [reply EXCEPT !.body = clean_null_bytes(@),
                  !.queries = [k \in DOMAIN @ |->
                                 [@[k] EXCEPT !.query = clean_null_bytes(@)]]]

HasChar(text, ch) == \E k \in DOMAIN text : text[k] = ch

\* whether json.loads accepts the text: free text is rejected, and so is a
\* string literal holding a raw control character
ValidJson(reply) ==
    /\ reply.kind # "text"
    /\ \A k \in DOMAIN reply.queries : ~HasChar(reply.queries[k].query, "NUL")

\* json.loads on a string literal: the escape becomes the character it names
JsonUnescape(text) ==
    [k \in DOMAIN text |-> IF text[k] = "ESC" THEN "NUL" ELSE text[k]]

\* json.loads(text)["queries"] of a reply json.loads accepts
ParsedQueries(reply) ==
    [k \in DOMAIN reply.queries |->
        [reply.queries[k] EXCEPT !.query = JsonUnescape(@)]]

InvalidPlanMsg == "LLM did not return valid JSON plan."

\* an exception text that drops the detail
HTTPExceptionStrEmpty(status, detail) == <<>>

\* str(e) of an HTTPException: "<status_code>: <detail>"
HTTPExceptionStr(status, detail) == <<"500: ">> \o detail

\* str(e) of the error the relational store raises for a statement: it quotes
\* the statement
DBErrorStr(query) == <<"(db error) [SQL: ">> \o query \o <<"]">>

NoResponse == [status |-> 0, detail |-> <<>>, insight_text |-> <<>>,
               data_for_charts |-> <<>>]

\* the outer handler of both endpoints: HTTPException(status_code=500, detail=str(e))
ErrorResponse(msg) ==
    [status |-> 500, detail |-> msg, insight_text |-> <<>>, data_for_charts |-> <<>>]

\* d[k] = v on a dict
DictSet(d, k, v) == [x \in DOMAIN d \cup {k} |-> IF x = k THEN v ELSE d[x]]

\* len(d)
DictLen(d) == Cardinality(DOMAIN d)

\* the key numbered by the other dict
SqlResultKeyOfRetrieved(frontend, retrieved) == DictLen(retrieved)

\* the n of the key f"sql_result_{len(data_for_frontend)}"
SqlResultKey(frontend, retrieved) == DictLen(frontend)

\* the n of the key f"vector_result_{len(retrieved_data)}"
VectorResultKey(frontend, retrieved) == DictLen(retrieved)

\* df.to_dict(orient="records") of the rows the statement selects
DBRows(query) == [kind |-> "rows", of |-> query]

\* results["documents"] of the nearest-neighbour search for the text
VectorDocs(query) == [kind |-> "documents", of |-> query]

SvcInit ==
    /\ loopOwner = 0
    /\ rq_pc = [r \in Requests |-> "none"]
    /\ rq_kind = [r \in Requests |-> "analyze"]
    /\ planValid = [r \in Requests |-> TRUE]
    /\ plan = [r \in Requests |-> <<>>]
    /\ q_idx = [r \in Requests |-> 1]
    /\ data_for_frontend = [r \in Requests |-> <<>>]
    /\ retrieved_data = [r \in Requests |-> <<>>]
    /\ response = [r \in Requests |-> NoResponse]
    /\ dbCalls = [r \in Requests |-> 0]
    /\ vecCalls = [r \in Requests |-> 0]
    /\ llmCalls = [r \in Requests |-> 0]

\* the handler of r returns or raises: the response is set; the task of r
\* still has to hand it to the client
Respond(r, resp) ==
    /\ response' = [response EXCEPT ![r] = resp]
    /\ rq_pc' = [rq_pc EXCEPT ![r] = "done"]
    /\ UNCHANGED loopOwner

\* whether the event loop can start the handler of an arrived request: both
\* handlers are `async def` and run on the one event loop, and none of their
\* calls to the model, the database or the vector store is awaited, so a handler
\* holds the loop from its start to its response
CanStart(r) == rq_pc[r] = "arrived" /\ loopOwner = 0

\* a client sends a request
Arrive(r) ==
    /\ UNCHANGED <<ingVars, plVars>>
    /\ rq_pc[r] = "none"
    /\ \E kind \in {"trajectories", "analyze"} :
         rq_kind' = [rq_kind EXCEPT ![r] = kind]
    /\ rq_pc' = [rq_pc EXCEPT ![r] = "arrived"]
    /\ UNCHANGED <<loopOwner, planValid, plan, q_idx, data_for_frontend,
                   retrieved_data, response, dbCalls, vecCalls, llmCalls>>

\* get_trajectories up to pd.read_sql
StartTrajectories(r) ==
    /\ UNCHANGED <<ingVars, plVars>>
    /\ CanStart(r)
    /\ rq_kind[r] = "trajectories"
    /\ loopOwner' = r
    /\ rq_pc' = [rq_pc EXCEPT ![r] = "db_call"]
    /\ dbCalls' = [dbCalls EXCEPT ![r] = 1]
    /\ UNCHANGED <<rq_kind, planValid, plan, q_idx, data_for_frontend,
                   retrieved_data, response, vecCalls, llmCalls>>

\* pd.read_sql returns or raises; group and return, or the 500 of the handler
TrajectoriesReply(r) ==
    /\ UNCHANGED <<ingVars, plVars>>
    /\ loopOwner = r
    /\ rq_pc[r] = "db_call"
    /\ \E ok \in BOOLEAN :
         IF ok
         THEN Respond(r, [NoResponse EXCEPT !.status = 200])
         ELSE Respond(r, ErrorResponse(<<"(db error)">>))
    /\ UNCHANGED <<loopOwner, rq_kind, planValid, plan, q_idx, data_for_frontend,
                   retrieved_data, dbCalls, vecCalls, llmCalls>>

\* analyze_query up to model.generate_content(planning_prompt)
StartAnalyze(r) ==
    /\ UNCHANGED <<ingVars, plVars>>
    /\ CanStart(r)
    /\ rq_kind[r] = "analyze"
    /\ loopOwner' = r
    /\ rq_pc' = [rq_pc EXCEPT ![r] = "plan_call"]
    /\ llmCalls' = [llmCalls EXCEPT ![r] = 1]
    /\ UNCHANGED <<rq_kind, planValid, plan, q_idx, data_for_frontend,
                   retrieved_data, response, dbCalls, vecCalls>>

\* The plan call returns (or raises): strip the null bytes, json.loads, and
\* read plan["queries"]. The HTTPException raised for invalid JSON is itself
\* caught by the outer `except Exception` and wrapped again.
PlanReply(r) ==
    /\ UNCHANGED <<ingVars, plVars>>
    /\ loopOwner = r
    /\ rq_pc[r] = "plan_call"
    /\ \/ /\ Respond(r, ErrorResponse(<<"(model error)">>))
          /\ UNCHANGED <<planValid, plan, q_idx, data_for_frontend, retrieved_data>>
       \/ \E reply \in PlanReplies :
            LET plan_response_text == CleanReply(reply)
            IN  /\ planValid' = [planValid EXCEPT ![r] = ValidJson(plan_response_text)]
                /\ IF ~ValidJson(plan_response_text)
                   THEN /\ Respond(r, ErrorResponse(
                                 HTTPExceptionStr(500, <<InvalidPlanMsg>>)))
                        /\ UNCHANGED <<plan, q_idx, data_for_frontend, retrieved_data>>
                   ELSE IF plan_response_text.kind = "noqueries"
                   THEN /\ Respond(r, ErrorResponse(<<"'queries'">>))
                        /\ UNCHANGED <<plan, q_idx, data_for_frontend, retrieved_data>>
                   ELSE /\ plan' = [plan EXCEPT ![r] = ParsedQueries(plan_response_text)]
                        /\ q_idx' = [q_idx EXCEPT ![r] = 1]
                        /\ data_for_frontend' = [data_for_frontend EXCEPT ![r] = <<>>]
                        /\ retrieved_data' = [retrieved_data EXCEPT ![r] = <<>>]
                        /\ rq_pc' = [rq_pc EXCEPT ![r] = "queries"]
                        /\ UNCHANGED response
    /\ UNCHANGED <<loopOwner, rq_kind, dbCalls, vecCalls, llmCalls>>

\* one iteration of `for q in plan["queries"]`
ExecQuery(r) ==
    /\ UNCHANGED <<ingVars, plVars>>
    /\ loopOwner = r
    /\ rq_pc[r] = "queries"
    /\ q_idx[r] <= Len(plan[r])
    /\ LET q == plan[r][q_idx[r]]
       IN  \E ok \in BOOLEAN :
             IF q.tool = "postgres"
             THEN /\ dbCalls' = [dbCalls EXCEPT ![r] = @ + 1]
                  /\ UNCHANGED <<vecCalls, retrieved_data>>
                  /\ IF ok
                     THEN /\ data_for_frontend' =
                                [data_for_frontend EXCEPT ![r] =
                                    DictSet(@, SqlResultKey(@, retrieved_data[r]),
                                            DBRows(q.query))]
                          /\ q_idx' = [q_idx EXCEPT ![r] = @ + 1]
                          /\ UNCHANGED <<rq_pc, response>>
                     ELSE /\ Respond(r, ErrorResponse(DBErrorStr(q.query)))
                          /\ UNCHANGED <<data_for_frontend, q_idx>>
             ELSE /\ vecCalls' = [vecCalls EXCEPT ![r] = @ + 1]
                  /\ UNCHANGED <<dbCalls, data_for_frontend>>
                  /\ IF ok
                     THEN /\ retrieved_data' =
                                [retrieved_data EXCEPT ![r] =
                                    DictSet(@, VectorResultKey(data_for_frontend[r], @),
                                            VectorDocs(q.query))]
                          /\ q_idx' = [q_idx EXCEPT ![r] = @ + 1]
                          /\ UNCHANGED <<rq_pc, response>>
                     ELSE /\ Respond(r, ErrorResponse(<<"(vector store error)">>))
                          /\ UNCHANGED <<retrieved_data, q_idx>>
    /\ UNCHANGED <<loopOwner, rq_kind, planValid, plan, llmCalls>>

\* after the loop: the synthesis call and the response
Synthesize(r) ==
    /\ UNCHANGED <<ingVars, plVars>>
    /\ loopOwner = r
    /\ rq_pc[r] = "queries"
    /\ q_idx[r] > Len(plan[r])
    /\ llmCalls' = [llmCalls EXCEPT ![r] = @ + 1]
    /\ \/ Respond(r, ErrorResponse(<<"(model error)">>))
       \/ \E insight \in Texts :
            Respond(r, [status |-> 200, detail |-> <<>>,
                        insight_text |-> clean_null_bytes(insight),
                        data_for_charts |-> data_for_frontend[r]])
    /\ UNCHANGED <<loopOwner, rq_kind, planValid, plan, q_idx, data_for_frontend,
                   retrieved_data, dbCalls, vecCalls>>

\* the response is sent, the request's task ends and the event loop is free
Release(r) ==
    /\ UNCHANGED <<ingVars, plVars>>
    /\ rq_pc[r] = "done"
    /\ loopOwner' = 0
    /\ rq_pc' = [rq_pc EXCEPT ![r] = "none"]
    /\ planValid' = [planValid EXCEPT ![r] = TRUE]
    /\ plan' = [plan EXCEPT ![r] = <<>>]
    /\ q_idx' = [q_idx EXCEPT ![r] = 1]
    /\ data_for_frontend' = [data_for_frontend EXCEPT ![r] = <<>>]
    /\ retrieved_data' = [retrieved_data EXCEPT ![r] = <<>>]
    /\ response' = [response EXCEPT ![r] = NoResponse]
    /\ dbCalls' = [dbCalls EXCEPT ![r] = 0]
    /\ vecCalls' = [vecCalls EXCEPT ![r] = 0]
    /\ llmCalls' = [llmCalls EXCEPT ![r] = 0]
    /\ UNCHANGED rq_kind

SvcArrive == \E r \in Requests : Arrive(r)
SvcStartTrajectories == \E r \in Requests : StartTrajectories(r)
SvcTrajectoriesReply == \E r \in Requests : TrajectoriesReply(r)
SvcStartAnalyze == \E r \in Requests : StartAnalyze(r)
SvcPlanReply == \E r \in Requests : PlanReply(r)
SvcExecQuery == \E r \in Requests : ExecQuery(r)
SvcSynthesize == \E r \in Requests : Synthesize(r)
SvcRelease == \E r \in Requests : Release(r)

SvcNext ==
    \/ SvcArrive
    \/ SvcStartTrajectories
    \/ SvcTrajectoriesReply
    \/ SvcStartAnalyze
    \/ SvcPlanReply
    \/ SvcExecQuery
    \/ SvcSynthesize
    \/ SvcRelease

Init == IngInit /\ PlInit /\ SvcInit

SpecIngestor == Init /\ [][IngNext]_vars

SpecPipeline == Init /\ [][PlNext]_vars

SpecService == Init /\ [][SvcNext]_vars

\* =========================================================================
\* Properties
\* =========================================================================

\* ---- File Ingestor

AllMasked(p) == \A k \in DOMAIN p : p[k].mask

FilesDone == IF ing_pc = "done" THEN 1..NumFiles ELSE 1..(file - 1)

\* C2: a failure while processing any one cycle of a file (including a
\* conversion error on the first cycle's cycle number) is caught, logged and
\* rolled back, and every remaining cycle of that file and every remaining file
\* is still processed: once a file whose metadata was read is left, each of its
\* cycles was either committed or rolled back, no file that was read ends in the
\* outer handler, and at the end every file was visited.
C2_CycleFailureIsContained ==
    /\ \A f \in FilesDone :
         fileLen[f] >= 0 =>
            /\ f \notin fatal
            /\ \A k \in 1..fileLen[f] : <<f, k>> \in table \cup rolledBack
    /\ ing_pc = "done" => \A f \in 1..NumFiles : fileLen[f] >= 0 \/ f \in fatal

\* C8: for every inserted row and each of pressure, temperature and salinity
\* independently, when every element of the cycle's profile array is masked the
\* stored scalar is None, never a computed number.
C8_AllMaskedStoresNull ==
    pending # None =>
        LET row == pending[1]
        IN  /\ AllMasked(row.pres_profile) => row.pres_avg = None
            /\ AllMasked(row.temp_profile) => row.temp_avg = None
            /\ AllMasked(row.psal_profile) => row.psal_avg = None

\* a row is inserted whose pressure profile is wholly masked while its
\* temperature profile is partly valid and its salinity profile wholly valid
C8_Witness ==
    /\ pending # None
    /\ AllMasked(pending[1].pres_profile)
    /\ pending[1].pres_avg = None
    /\ ~AllMasked(pending[1].temp_profile)
    /\ \E k \in 1..ProfileLen : pending[1].temp_profile[k].mask
    /\ pending[1].temp_avg # None
    /\ \A k \in 1..ProfileLen : ~pending[1].psal_profile[k].mask
    /\ pending[1].psal_avg # None

\* ---- Summarization & Indexing Pipeline

\* the number in the progress file, 0 when there is no file
CkptValue == IF progressFile = None THEN 0 ELSE progressFile[1]

C7_RowFailureNeverAbortsPage ==
    /\ failCause # "row"
    /\ (pl_pc = "log" /\ df # <<>>) =>
          /\ Len(summaries_for_chroma) = Len(df)
          /\ \A k \in DOMAIN df :
                summaries_for_chroma[k].row = df[k] /\ df[k] \in collection

\* C10: whenever a run prints the full-completion message, every row counted
\* in that run's total row count has a document in the collection under its id.
C10_CompletionMeansAllIndexed ==
    completionMsg => \A id \in 1..total_records : id \in collection

\* ---- Query Service

PostgresEntries(p) == SelectSeq(p, LAMBDA q : q.tool = "postgres")

Finished(r) == rq_pc[r] = "done" /\ rq_kind[r] = "analyze"

\* C4: a plan reply that is not valid JSON (as the service parses it, null
\* bytes stripped) yields status 500 with the invalid-plan message in the
\* detail, and the request made no database query, no vector-store query and
\* no second model call.
C4_InvalidPlanIs500 ==
    \A r \in Requests :
        (Finished(r) /\ ~planValid[r]) =>
            /\ response[r].status = 500
            /\ HasChar(response[r].detail, InvalidPlanMsg)
            /\ dbCalls[r] = 0
            /\ vecCalls[r] = 0
            /\ llmCalls[r] = 1

\* a request whose plan reply was free text has been answered
C4_Witness ==
    \E r \in Requests :
        /\ Finished(r)
        /\ ~planValid[r]
        /\ response[r].status = 500

\* C5: for every plan, a successful response's data_for_charts has exactly one
\* entry per postgres entry of the plan, under distinct keys sql_result_0 ..
\* sql_result_(n-1), the k-th holding the rows of the k-th postgres query, and
\* no vector documents.
C5_ChartsHoldOnlySqlResults ==
    \A r \in Requests :
        (Finished(r) /\ response[r].status = 200) =>
            LET pg == PostgresEntries(plan[r])
                charts == response[r].data_for_charts
            IN  /\ DOMAIN charts = 0..(Len(pg) - 1)
                /\ \A k \in 1..Len(pg) : charts[k - 1] = DBRows(pg[k].query)
                /\ \A key \in DOMAIN charts : charts[key].kind # "documents"

\* a successful response to a plan of two postgres entries whose results
\* differ, and a successful response to a plan that also asked a vector query
C5_Witness ==
    \E r \in Requests :
        /\ Finished(r)
        /\ response[r].status = 200
        /\ Len(plan[r]) = 2
        /\ plan[r][1].tool = "vector"
        /\ plan[r][2].tool = "postgres"
        /\ DictLen(retrieved_data[r]) = 1
        /\ DictLen(response[r].data_for_charts) = 1

\* C6: while one request is waiting on an external call, another request that
\* has arrived can be started.
C6_RequestsDoNotBlock ==
    \A r \in Requests : \A r2 \in Requests \ {r} :
        (rq_pc[r] \in {"plan_call", "db_call", "queries"} /\ rq_pc[r2] = "arrived")
            => CanStart(r2)

\* C9: no text echoed from a model reply into a response holds U+0000: neither
\* insight_text nor the detail of a 500 response.
C9_NoNullByteEchoed ==
    \A r \in Requests :
        rq_pc[r] = "done" =>
            /\ ~HasChar(response[r].insight_text, "NUL")
            /\ ~HasChar(response[r].detail, "NUL")

====
